---- MODULE Spec2Model ----
(***************************************************************************)
(* Model of the hit detection pipeline of GaiaLab:                         *)
(*   packages/hits/hitdetector.py      identify_anomaly,                   *)
(*                                     identify_through_gradient,          *)
(*                                     identify_noise                      *)
(*   packages/hits/noiseremoval/lowpass.py   LowPassData                   *)
(*                                                                         *)
(* Numbers.  obmt is held in hundredths of a revolution, so that the       *)
(* 1/10 and 1/20 revolution buckets and the 0.5 and 0.01 revolution        *)
(* limits are all integers.  rate, w1_rate and the thresholds are          *)
(* integers in mas/s.  The low pass filter runs on exact rationals         *)
(* [n |-> numerator, d |-> denominator].                                   *)
(*                                                                         *)
(* A dataframe is a sequence of rows; a row is a record whose fields are   *)
(* the columns plus idx, the row's index label.                            *)
(***************************************************************************)
EXTENDS Integers, Sequences, FiniteSets, TLC

VARIABLES
    df,         \* the caller's dataframe, as passed to the function
    op,         \* the function that was called: "none" before the call
    threshold,  \* the threshold argument of the call
    data,       \* first component of the returned tuple (a dataframe)
    t,          \* second component of the returned tuple (the anomaly times)
    raised,     \* TRUE when the call ended in an exception
    x,          \* low pass: the data_array handed to _low_pass
    alpha,      \* low pass: the coefficient, a rational
    i,          \* low pass: the generator's index i
    acc,        \* low pass: the generator's running value (local x)
    y,          \* low pass: the values yielded so far
    gen,        \* low pass: generator state
    self_obmt,  \* LowPassData: _obmt, [none |-> TRUE] for None
    self_dt,    \* LowPassData: _dt, a rational (seconds)
    self_cutoff, \* LowPassData: _cutoff, a rational (Hz)
    obj         \* LowPassData: "args" before __init__, then "constructed"
                \* or the exception __init__ raised

vars == <<df, op, threshold, data, t, raised, x, alpha, i, acc, y, gen,
          self_obmt, self_dt, self_cutoff, obj>>

hitVars == <<df, op, threshold, data, t, raised>>

objVars == <<self_obmt, self_dt, self_cutoff, obj>>

filterVars == <<x, alpha, i, acc, y, gen, self_obmt, self_dt, self_cutoff, obj>>

-----------------------------------------------------------------------------
(* Bounds of the model *)

\* longest dataframe given to identify_anomaly / identify_through_gradient
MaxLen == 3

\* longest dataframe given to identify_noise
MaxNoiseLen == 4

\* longest data_array given to the low pass filter
MaxSignalLen == 3

\* longest obmt sequence given to LowPassData
MaxObmtLen == 2

-----------------------------------------------------------------------------
(* Input values *)

\* obmt values (hundredths of a revolution) for the two detectors:
\* 0 and 3 share a 1/20 bucket, 3 and 7 share a 1/10 bucket only,
\* 10 is in the next 1/10 bucket.
ObmtValues == {0, 3, 7, 10}

RateValues == {0, 4}

W1RateValues == {0, 2}

\* threshold arguments; 2 is the default of identify_anomaly
AnomalyThresholds == {2, 3, 4}

GradientThresholds == {0, 2, 4}

\* obmt values for identify_noise: enough 1/10 buckets for equal and
\* unequal spacings of three and more events
NoiseObmtValues == {0, 7, 10, 20, 60, 70}

NoiseRateValues == {0, 4}

\* obmt values for the calls of any of the three functions: 0 and 7 share a
\* 1/10 bucket, 0, 10 and 20 are three buckets
CallsObmtValues == {0, 7, 10, 20}

NoiseW1RateValues == {0}

\* data_array values and coefficients for the low pass filter
SignalValues == {0, 4, 8}

AlphaValues == {[n |-> 1, d |-> 2], [n |-> 1, d |-> 4], [n |-> 3, d |-> 4]}

Abs(v) == IF v < 0 THEN -v ELSE v

\* a dataframe with the default RangeIndex 0..n-1 built from n samples
MakeFrame(f) ==
    [k \in 1..Len(f) |->
        [idx |-> k - 1, obmt |-> f[k].obmt, rate |-> f[k].rate,
         w1_rate |-> f[k].w1_rate]]

Samples(obmts, rates, w1s) == [obmt : obmts, rate : rates, w1_rate : w1s]

-----------------------------------------------------------------------------
(* hits.misc.sort_data and DataFrame.sort_values('obmt') *)

RECURSIVE InsertByObmt(_, _)
InsertByObmt(row, s) ==
    IF s = << >> THEN << row >>
    ELSE IF row.obmt < Head(s).obmt THEN << row >> \o s
    ELSE << Head(s) >> \o InsertByObmt(row, Tail(s))

\* ascending in obmt, rows of equal obmt keep their order, index labels kept
RECURSIVE SortValues(_)
SortValues(s) ==
    IF s = << >> THEN << >>
    ELSE InsertByObmt(s[Len(s)], SortValues(SubSeq(s, 1, Len(s) - 1)))

\* the decorator: the wrapped function receives the dataframe sorted by obmt
SortData(s) == SortValues(s)

-----------------------------------------------------------------------------
(* quantisation and drop_duplicates *)

QuantizeRound(obmt, k) == ((obmt * k + 50) \div 100) * (100 \div k)

\* np.floor(times * k) / k, in hundredths of a revolution (k divides 100)
Quantize(obmt, k) == ((obmt * k) \div 100) * (100 \div k)

DropDuplicatesByIndex(s) ==
    SelectSeq([k \in 1..Len(s) |-> [row |-> s[k], pos |-> k]],
              LAMBDA e : \A j \in 1..(e.pos - 1) : s[j].idx # e.row.idx)

DropDuplicatesKeepLast(s) ==
    SelectSeq([k \in 1..Len(s) |-> [row |-> s[k], pos |-> k]],
              LAMBDA e : \A j \in (e.pos + 1)..Len(s) : s[j].obmt # e.row.obmt)

\* DataFrame.drop_duplicates(subset='obmt'): the first row of each obmt stays
DropDuplicates(s) ==
    SelectSeq([k \in 1..Len(s) |-> [row |-> s[k], pos |-> k]],
              LAMBDA e : \A j \in 1..(e.pos - 1) : s[j].obmt # e.row.obmt)

\* the rows of DropDuplicates, without the positions
EventRows(s) == [k \in 1..Len(DropDuplicates(s)) |-> DropDuplicates(s)[k].row]

-----------------------------------------------------------------------------
(* identify_anomaly *)

\* buckets per revolution of the anomaly times
AnomalyBuckets == 10

\* anomaly_threshold, when the caller gives none
DefaultAnomalyThreshold == 2

AnomalyFlagStrict(row, th) == Abs(row.rate - row.w1_rate) > th

\* working_df['anomaly'] for one row
AnomalyFlag(row, th) == Abs(row.rate - row.w1_rate) >= th

AnomalyFrameFlaggedOnly(frame, th) ==
    LET kept == SelectSeq(frame, LAMBDA r : AnomalyFlag(r, th))
    IN  [k \in 1..Len(kept) |->
            [idx |-> kept[k].idx, obmt |-> kept[k].obmt, rate |-> kept[k].rate,
             w1_rate |-> kept[k].w1_rate, anomaly |-> TRUE]]

\* working_df: the sorted copy of the dataframe with the anomaly column
AnomalyFrame(frame, th) ==
    [k \in 1..Len(frame) |->
        [idx |-> frame[k].idx, obmt |-> frame[k].obmt, rate |-> frame[k].rate,
         w1_rate |-> frame[k].w1_rate, anomaly |-> AnomalyFlag(frame[k], th)]]

\* anomaly_df before drop_duplicates: index and quantised obmt of the
\* flagged rows
AnomalyTimes(working, buckets) ==
    LET flagged == SelectSeq(working, LAMBDA r : r.anomaly = TRUE)
    IN  [k \in 1..Len(flagged) |->
            [idx |-> flagged[k].idx, obmt |-> Quantize(flagged[k].obmt, buckets)]]

identify_anomaly(frame, th) ==
    LET working == AnomalyFrame(SortData(frame), th)
    IN  [data |-> working,
         t |-> EventRows(AnomalyTimes(working, AnomalyBuckets)),
         raised |-> FALSE]

-----------------------------------------------------------------------------
(* identify_through_gradient *)

GradientBuckets == 20

\* rate - w1_rate of each row
Deviation(frame) == [k \in 1..Len(frame) |-> frame[k].rate - frame[k].w1_rate]

\* np.diff
Diff(s) == [k \in 1..(Len(s) - 1) |-> s[k + 1] - s[k]]

GradPrependZeroBaseline(frame) ==
    IF frame = << >> THEN << 0 >>
    ELSE << Deviation(frame)[1] >> \o Diff(Deviation(frame))

\* [0, *np.diff(rate - w1_rate)]
Grad(frame) == << 0 >> \o Diff(Deviation(frame))

\* abs(grad >= gradient_threshold): the comparison is made first and abs
\* is taken of its boolean result, which it leaves as it is
GradientFlag(g, th) == g >= th

GradientFrame(frame, th) ==
    [k \in 1..Len(frame) |->
        [idx |-> frame[k].idx, obmt |-> frame[k].obmt, rate |-> frame[k].rate,
         w1_rate |-> frame[k].w1_rate, grad |-> Grad(frame)[k],
         anomaly |-> GradientFlag(Grad(frame)[k], th)]]

\* assigning the grad column raises when its length is not the
\* dataframe's: an empty dataframe gets the one value [0]
identify_through_gradient(frame, th) ==
    LET sorted == SortValues(SortData(frame))
    IN  IF Len(Grad(sorted)) # Len(sorted)
        THEN [data |-> << >>, t |-> << >>, raised |-> TRUE]
        ELSE LET working == GradientFrame(sorted, th)
             IN  [data |-> working,
                  t |-> EventRows(AnomalyTimes(working, GradientBuckets)),
                  raised |-> FALSE]

-----------------------------------------------------------------------------
(* identify_noise *)

\* fewer events than this: no periodicity test
PeriodicityMinEvents == 3

\* the value 1 (revolution) that pads diff and diff_diff
PadValue == 100

\* 0.5 revolution: diff_diff below it means periodic
PeriodicityLimit == 50

\* the row of a dataframe with index label idx
RowAt(frame, idx) == frame[CHOOSE k \in 1..Len(frame) : frame[k].idx = idx]

HasIndex(frame, idx) == \E k \in 1..Len(frame) : frame[k].idx = idx

\* working_df with the hits column; hits[k] is the value for row k
WithHits(frame, hits) ==
    [k \in 1..Len(frame) |->
        [idx |-> frame[k].idx, obmt |-> frame[k].obmt, rate |-> frame[k].rate,
         w1_rate |-> frame[k].w1_rate, anomaly |-> frame[k].anomaly,
         hits |-> hits[k]]]

\* the event times as a plain sequence
Times(events) == [k \in 1..Len(events) |-> events[k].obmt]

\* [1, 1, *np.diff(np.diff(t['obmt']))]
DiffDiff(events) == << PadValue, PadValue >> \o Diff(Diff(Times(events)))

\* [1, *np.diff(t['obmt'])]
DiffPadded(events) == << PadValue >> \o Diff(Times(events))

HitFromDiffDiffInverted(dd) == IF dd < PeriodicityLimit THEN TRUE ELSE FALSE

\* hit_data['hits'] for one value of diff_diff
HitFromDiffDiff(dd) == IF dd < PeriodicityLimit THEN FALSE ELSE TRUE

\* position of index label idx in the event list, 0 when absent
EventPos(events, idx) ==
    IF \E k \in 1..Len(events) : events[k].idx = idx
    THEN CHOOSE k \in 1..Len(events) : events[k].idx = idx
    ELSE 0

HitsOutsideEventsFromAnomaly(row) == row.anomaly

\* hits of a row not in hit_data.index
HitsOutsideEvents(row) == FALSE

\* the value written to working_df['hits'] for a row, 3 or more events
PeriodicHits(events, row) ==
    IF EventPos(events, row.idx) # 0
    THEN HitFromDiffDiff(DiffDiff(events)[EventPos(events, row.idx)])
    ELSE HitsOutsideEvents(row)

FewEventsNoHits(row) == FALSE

\* hits of a row when there are fewer than 3 events
FewEventsHits(row) == row.anomaly

identify_noise(frame) ==
    LET r      == identify_anomaly(SortData(frame), DefaultAnomalyThreshold)
        events == r.t
    IN  IF Len(events) < PeriodicityMinEvents
        THEN LET working == WithHits(r.data, [k \in 1..Len(r.data) |->
                                                FewEventsHits(r.data[k])])
             IN  IF \E k \in 1..Len(events) : ~HasIndex(working, events[k].idx)
                 THEN [data |-> << >>, t |-> << >>, raised |-> TRUE]
                 ELSE [data |-> [k \in 1..Len(events) |->
                                     RowAt(working, events[k].idx)],
                       t |-> events, raised |-> FALSE]
        ELSE IF \/ Len(DiffPadded(events)) # Len(events)
                \/ Len(DiffDiff(events)) # Len(events)
             THEN [data |-> << >>, t |-> << >>, raised |-> TRUE]
             ELSE [data |-> WithHits(r.data, [k \in 1..Len(r.data) |->
                                                PeriodicHits(events, r.data[k])]),
                   t |-> events, raised |-> FALSE]

-----------------------------------------------------------------------------
(* The calls *)

\* no LowPassData object
NoObject ==
    /\ self_obmt = [none |-> TRUE, at |-> << >>]
    /\ self_dt = [n |-> 0, d |-> 1]
    /\ self_cutoff = [n |-> 0, d |-> 1]
    /\ obj = "none"

FilterIdle ==
    /\ NoObject
    /\ x = << >>
    /\ alpha = [n |-> 0, d |-> 1]
    /\ i = 0
    /\ acc = [n |-> 0, d |-> 1]
    /\ y = << >>
    /\ gen = "none"

NoCall ==
    /\ op = "none"
    /\ threshold = 0
    /\ data = << >>
    /\ t = << >>
    /\ raised = FALSE

ArgumentAliased(frame, working) == working

\* working_df = df.copy() (data.copy() in identify_noise): the columns are
\* added to the copy, the caller's dataframe stays what it was
ArgumentAfterCall(frame, working) == frame

Return(name, th, r) ==
    /\ op' = name
    /\ threshold' = th
    /\ data' = r.data
    /\ t' = r.t
    /\ raised' = r.raised
    /\ df' = ArgumentAfterCall(df, r.data)
    /\ UNCHANGED filterVars

IdentifyAnomaly ==
    /\ op = "none"
    /\ \E th \in AnomalyThresholds :
          Return("identify_anomaly", th, identify_anomaly(df, th))

IdentifyThroughGradient ==
    /\ op = "none"
    /\ \E th \in GradientThresholds :
          Return("identify_through_gradient", th,
                 identify_through_gradient(df, th))

IdentifyNoise ==
    /\ op = "none"
    /\ Return("identify_noise", DefaultAnomalyThreshold, identify_noise(df))

\* the two detectors, on every dataframe of up to MaxLen rows
Init ==
    /\ \E len \in 0..MaxLen :
          \E f \in [1..len -> Samples(ObmtValues, RateValues, W1RateValues)] :
             df = MakeFrame(f)
    /\ NoCall
    /\ FilterIdle

Next == IdentifyAnomaly \/ IdentifyThroughGradient

Spec == Init /\ [][Next]_vars

\* identify_noise, on every dataframe of up to MaxNoiseLen rows
InitNoise ==
    /\ \E len \in 0..MaxNoiseLen :
          \E f \in [1..len -> Samples(NoiseObmtValues, NoiseRateValues,
                                      NoiseW1RateValues)] :
             df = MakeFrame(f)
    /\ NoCall
    /\ FilterIdle

NextNoise == IdentifyNoise

SpecNoise == InitNoise /\ [][NextNoise]_vars

\* any of the three functions, on every dataframe of up to MaxLen rows
InitCalls ==
    /\ \E len \in 0..MaxLen :
          \E f \in [1..len -> Samples(CallsObmtValues, RateValues, W1RateValues)] :
             df = MakeFrame(f)
    /\ NoCall
    /\ FilterIdle

NextCalls == IdentifyAnomaly \/ IdentifyThroughGradient \/ IdentifyNoise

SpecCalls == InitCalls /\ [][NextCalls]_vars

-----------------------------------------------------------------------------
(* Properties of identify_anomaly and identify_through_gradient (Spec) *)

\* the row of the caller's dataframe with index label idx
Sample(idx) == RowAt(df, idx)

\* the caller's samples that deviate from w1_rate by the threshold or more,
\* in either direction
Deviating == {s \in {df[k] : k \in 1..Len(df)} :
                 \/ s.rate - s.w1_rate >= threshold
                 \/ s.w1_rate - s.rate >= threshold}

\* floor(obmt * 10) of a sample
Bucket10(s) == (s.obmt * 10) \div 100

C2_EventCount ==
    op = "identify_anomaly" =>
        Len(t) = Cardinality({Bucket10(s) : s \in Deviating})

\* three flagged samples in two buckets give two events
C2_Witness ==
    /\ op = "identify_anomaly"
    /\ Cardinality(Deviating) = 3
    /\ Len(t) = 2

\* C3: no two events of one run of either detector have the same quantised
\* timestamp.
C3_OneEventPerBucket ==
    op \in {"identify_anomaly", "identify_through_gradient"} =>
        \A a, b \in 1..Len(t) : a # b => t[a].obmt # t[b].obmt

\* a gradient run where two flagged samples fall in one 1/20 bucket and a
\* third in another
C3_Witness ==
    /\ op = "identify_through_gradient"
    /\ Len(t) = 2
    /\ \E a, b \in 1..Len(data) :
          /\ a # b
          /\ data[a].anomaly /\ data[b].anomaly
          /\ (data[a].obmt * 20) \div 100 = (data[b].obmt * 20) \div 100

\* the change of rate - w1_rate from the sample before row k of the
\* returned (sorted) dataframe; 0 for the first row
Change(k) ==
    IF k = 1 THEN 0
    ELSE (data[k].rate - data[k].w1_rate)
         - (data[k - 1].rate - data[k - 1].w1_rate)

\* C8: identify_through_gradient flags a sample exactly when the magnitude
\* of the sample-to-sample difference of rate - w1_rate is the threshold or
\* more, a drop like a rise.
C8_GradientSymmetric ==
    (op = "identify_through_gradient" /\ ~raised) =>
        \A k \in 1..Len(data) :
            data[k].anomaly = (Abs(Change(k)) >= threshold)

\* C9 as stated: for every threshold, the first sample in obmt order is not
\* flagged by identify_through_gradient and yields no event.
C9_FirstNeverFlagged ==
    (op = "identify_through_gradient" /\ ~raised /\ Len(df) > 0) =>
        /\ \A k \in 1..Len(data) : data[1].obmt <= data[k].obmt
        /\ ~data[1].anomaly
        /\ \A e \in 1..Len(t) : t[e].idx # data[1].idx

\* C9 amended: for every positive threshold, the first sample in obmt order
\* is not flagged by identify_through_gradient and yields no event.
C9_FirstNeverFlaggedPositive ==
    (op = "identify_through_gradient" /\ ~raised /\ Len(df) > 0
        /\ threshold > 0) =>
        /\ \A k \in 1..Len(data) : data[1].obmt <= data[k].obmt
        /\ ~data[1].anomaly
        /\ \A e \in 1..Len(t) : t[e].idx # data[1].idx

\* the first sample deviates by more than the threshold, a later sample is
\* flagged, the first is not
C9_Witness ==
    /\ op = "identify_through_gradient"
    /\ threshold > 0
    /\ Len(data) > 1
    /\ data[1].rate - data[1].w1_rate >= threshold
    /\ ~data[1].anomaly
    /\ Len(t) > 0

-----------------------------------------------------------------------------
(* Properties of identify_noise (SpecNoise) *)

\* the 1/10 revolution buckets holding a sample that identify_anomaly flags
\* at the default threshold: one event each
EventBuckets == {Bucket10(s) : s \in Deviating}

\* the index labels of the returned event list
EventIndex == {t[e].idx : e \in 1..Len(t)}

\* C4: with fewer than 3 events identify_noise does not raise and every
\* event of the returned list has hits = TRUE in the returned dataframe.
C4_FewEventsAllHits ==
    (op = "identify_noise" /\ Cardinality(EventBuckets) < 3) =>
        /\ ~raised
        /\ Len(t) = Cardinality(EventBuckets)
        /\ \A e \in 1..Len(t) :
              /\ HasIndex(data, t[e].idx)
              /\ RowAt(data, t[e].idx).hits = TRUE

\* two events from three flagged samples, both events hits
C4_Witness ==
    /\ op = "identify_noise"
    /\ ~raised
    /\ Cardinality(Deviating) = 3
    /\ Len(t) = 2
    /\ \A e \in 1..Len(t) : RowAt(data, t[e].idx).hits = TRUE

\* the change of spacing at event k (k >= 3), hundredths of a revolution
SpacingChange(k) == (t[k].obmt - t[k - 1].obmt) - (t[k - 1].obmt - t[k - 2].obmt)

\* every spacing differs from the one before by less than 0.01 revolution
NearConstantSpacing == \A k \in 3..Len(t) : Abs(SpacingChange(k)) < 1

\* C5: 3 or more events with near-constant spacing: every event other than
\* the first two has hits = FALSE.
C5_PeriodicNotHits ==
    (op = "identify_noise" /\ ~raised /\ Len(t) >= 3 /\ NearConstantSpacing) =>
        \A k \in 3..Len(t) :
            /\ HasIndex(data, t[k].idx)
            /\ RowAt(data, t[k].idx).hits = FALSE

\* three equally spaced events and a fourth sample
C5_Witness ==
    /\ op = "identify_noise"
    /\ ~raised
    /\ Len(t) = 3
    /\ NearConstantSpacing
    /\ Len(data) = 4
    /\ RowAt(data, t[3].idx).hits = FALSE

C7_AllSamplesReturned ==
    (op = "identify_noise" /\ ~raised) =>
        /\ Len(data) = Len(df)
        /\ \A j \in 1..Len(df) :
              /\ HasIndex(data, df[j].idx)
              /\ RowAt(data, df[j].idx).obmt = df[j].obmt
              /\ RowAt(data, df[j].idx).rate = df[j].rate
              /\ RowAt(data, df[j].idx).w1_rate = df[j].w1_rate
              /\ RowAt(data, df[j].idx).hits \in BOOLEAN

-----------------------------------------------------------------------------
(* Exact rationals [n |-> numerator, d |-> denominator], d > 0 *)

RECURSIVE Gcd(_, _)
Gcd(a, b) == IF b = 0 THEN a ELSE Gcd(b, a % b)

Reduce(r) ==
    LET g == Gcd(Abs(r.n), r.d)
    IN  [n |-> r.n \div g, d |-> r.d \div g]

Rat(v) == [n |-> v, d |-> 1]

\* least common multiple of two denominators
Lcm(a, b) == (a \div Gcd(a, b)) * b

RatAdd(a, b) ==
    LET m == Lcm(a.d, b.d)
    IN  Reduce([n |-> a.n * (m \div a.d) + b.n * (m \div b.d), d |-> m])

RatSub(a, b) ==
    LET m == Lcm(a.d, b.d)
    IN  Reduce([n |-> a.n * (m \div a.d) - b.n * (m \div b.d), d |-> m])

RatMul(a, b) == Reduce([n |-> a.n * b.n, d |-> a.d * b.d])

RatEq(a, b) == a.n * b.d = b.n * a.d

-----------------------------------------------------------------------------
(* LowPassData._low_pass: a generator, one action for each next() on it *)

\* x += alpha * (data_array[i] - x), for the sample at index k (0-based)
Smooth(value, coeff, array, k) ==
    RatAdd(value, RatMul(coeff, RatSub(Rat(array[k + 1]), value)))

\* the first next(): x = data_array[0], i = 0, then the loop body up to the
\* yield.  data_array[0] is read outside the try.
LowPassStart ==
    /\ gen = "created"
    /\ IF Len(x) = 0
       THEN /\ gen' = "IndexError"
            /\ UNCHANGED <<i, acc, y>>
       ELSE /\ i' = 0
            /\ acc' = Smooth(Rat(x[1]), alpha, x, 0)
            /\ y' = << acc' >>
            /\ gen' = "suspended"
    /\ UNCHANGED <<x, alpha>>
    /\ UNCHANGED objVars
    /\ UNCHANGED hitVars

\* a later next(): i += 1, then the loop body; IndexError on data_array[i]
\* is caught and ends the generator
LowPassResume ==
    /\ gen = "suspended"
    /\ i' = i + 1
    /\ IF i + 1 >= Len(x)
       THEN /\ gen' = "done"
            /\ UNCHANGED <<acc, y>>
       ELSE /\ acc' = Smooth(acc, alpha, x, i + 1)
            /\ y' = Append(y, acc')
            /\ gen' = "suspended"
    /\ UNCHANGED <<x, alpha>>
    /\ UNCHANGED objVars
    /\ UNCHANGED hitVars

\* _low_pass(data_array, alpha) called: the generator exists, nothing of
\* its body has run
InitLowPass ==
    /\ \E len \in 0..MaxSignalLen : x \in [1..len -> SignalValues]
    /\ alpha \in AlphaValues
    /\ i = 0
    /\ acc = Rat(0)
    /\ y = << >>
    /\ gen = "created"
    /\ NoObject
    /\ df = << >>
    /\ NoCall

NextLowPass == LowPassStart \/ LowPassResume

SpecLowPass == InitLowPass /\ [][NextLowPass]_vars

-----------------------------------------------------------------------------
(* Properties of the low pass filter (SpecLowPass) *)

\* C10: the output satisfies y[0] = x[0] and
\* y[n+1] = y[n] + alpha * (x[n] - y[n]): each output after the first comes
\* from the previous input sample and the previous output.  Sequences here
\* start at 1, so y[m + 1] is the claim's y[m].
C10_RecurrenceOnPreviousInput ==
    gen \in {"suspended", "done"} =>
        /\ Len(y) >= 1
        /\ RatEq(y[1], Rat(x[1]))
        /\ \A m \in 1..(Len(y) - 1) :
              RatEq(y[m + 1],
                    RatAdd(y[m], RatMul(alpha, RatSub(Rat(x[m]), y[m]))))

\* C11: for an input of any length n >= 0 a pass yields exactly n values and
\* then ends normally; running out of input never reaches the consumer as
\* an error.
C11_PassYieldsAllAndEnds ==
    /\ gen # "IndexError"
    /\ gen = "done" => Len(y) = Len(x)
    /\ gen = "suspended" => (Len(y) = i + 1 /\ Len(y) <= Len(x))

-----------------------------------------------------------------------------
(* Frame and shape properties *)

\* the columns of the dataframe the caller passes
InputColumns == {"idx", "obmt", "rate", "w1_rate"}

C15_AnnotatedKeepsSamples ==
    op = "identify_anomaly" =>
        /\ Len(data) = Len(df)
        /\ \A j \in 1..Len(df) :
              /\ Cardinality({k \in 1..Len(data) : data[k].idx = df[j].idx}) = 1
              /\ RowAt(data, df[j].idx).obmt = df[j].obmt
              /\ RowAt(data, df[j].idx).rate = df[j].rate
              /\ RowAt(data, df[j].idx).w1_rate = df[j].w1_rate
              /\ RowAt(data, df[j].idx).anomaly \in BOOLEAN
              /\ DOMAIN RowAt(data, df[j].idx) = InputColumns \cup {"anomaly"}

\* three samples, given out of order, some flagged and some not
C15_Witness ==
    /\ op = "identify_anomaly"
    /\ Len(df) = 3
    /\ Len(data) = 3
    /\ df[1].obmt > df[2].obmt
    /\ \E k \in 1..Len(data) : data[k].anomaly
    /\ \E k \in 1..Len(data) : ~data[k].anomaly

\* position in the returned dataframe (ascending obmt) of index label idx
DataPos(idx) == CHOOSE k \in 1..Len(data) : data[k].idx = idx

\* C16: each event of identify_anomaly carries the index of the first
\* flagged sample, in ascending obmt order, of its 1/10 revolution bucket,
\* and the time floor(obmt*10)/10 of that sample; the later flagged samples
\* of the bucket give no event.
C16_EventIsFirstOfBucket ==
    op = "identify_anomaly" =>
        /\ \A k \in 1..(Len(data) - 1) : data[k].obmt <= data[k + 1].obmt
        /\ \A e \in 1..Len(t) :
              /\ Sample(t[e].idx) \in Deviating
              /\ t[e].obmt = Bucket10(Sample(t[e].idx)) * 10
              /\ \A k \in 1..Len(data) :
                    (data[k].anomaly /\ Bucket10(data[k]) = Bucket10(Sample(t[e].idx)))
                        => /\ DataPos(t[e].idx) <= k
                           /\ Sample(t[e].idx).obmt <= data[k].obmt
        /\ \A k \in 1..Len(data) :
              data[k].anomaly =>
                  Cardinality({e \in 1..Len(t) : t[e].obmt = Bucket10(data[k]) * 10}) = 1

\* two flagged samples of one bucket, the later one given first: the event
\* carries the index of the earlier one
C16_Witness ==
    /\ op = "identify_anomaly"
    /\ Len(t) = 1
    /\ Cardinality(Deviating) = 2
    /\ \E s \in Deviating : s.obmt > Sample(t[1].idx).obmt /\ s.idx < t[1].idx

-----------------------------------------------------------------------------
(* Periodicity test of identify_noise (SpecNoise) *)

\* C17: with 3 or more events, an event from the third on has hits = FALSE
\* only when its spacing changed by less than 0.5 revolution in absolute
\* value; a change of 0.5 or more, to a longer or to a shorter gap, gives
\* hits = TRUE.
C17_NoiseOnlyWhenNearConstant ==
    (op = "identify_noise" /\ ~raised /\ Len(t) >= 3) =>
        \A k \in 3..Len(t) :
            RowAt(data, t[k].idx).hits = (Abs(SpacingChange(k)) >= 50)

-----------------------------------------------------------------------------
(* LowPassData: __init__, tweak_cutoff, and a pass over the data *)

\* seconds in a revolution
SecondsPerRevolution == 21600

\* the cutoff __init__ sets, 0.05 Hz
DefaultCutoff == [n |-> 1, d |-> 20]

\* np.pi, to seven digits
Pi == [n |-> 355, d |-> 113]

\* obmt values of the filter's timestamps, in revolutions: whole seconds
FilterObmtValues == {[n |-> k, d |-> SecondsPerRevolution] : k \in 0..2}

\* cutoff frequencies given to tweak_cutoff, Hz
CutoffValues == {[n |-> 1, d |-> 20], [n |-> 1, d |-> 2], [n |-> 1, d |-> 1]}

\* a / b, b > 0
RatDiv(a, b) == Reduce([n |-> a.n * b.d, d |-> a.d * b.n])

\* sum of the terms Z^k / k! for k = step..12 of exp, in units of 1/10000;
\* term is the term of step - 1
RECURSIVE ExpSeries(_, _, _)
ExpSeries(Z, step, term) ==
    IF step > 12 THEN 0
    ELSE LET next == (term * Z) \div (step * 10000)
         IN  next + ExpSeries(Z, step + 1, next)

\* np.exp(-z) for a rational 0 <= z <= 2, rounded to two decimals
ExpNeg(z) ==
    LET Z == (z.n * 10000) \div z.d
        E == 10000 + ExpSeries(Z, 1, 10000)
    IN  Reduce([n |-> ((10000 * 10000) \div E + 50) \div 100, d |-> 100])

\* __init__: (2 pi dt f) / (2 pi dt f + 1)
AlphaOfInit(dt, f) ==
    LET w == RatMul(RatMul(Rat(2), Pi), RatMul(dt, f))
    IN  RatDiv(w, RatAdd(w, Rat(1)))

\* tweak_cutoff: 1 - exp(-dt f)
AlphaOfTweak(dt, f) == RatSub(Rat(1), ExpNeg(RatMul(dt, f)))

\* (self._obmt[1] - self._obmt[0]) * 21600; reading _obmt[1] or _obmt[0] of
\* a shorter sequence raises IndexError
DtOfObmt(ts) ==
    RatMul(RatSub(ts[2], ts[1]), Rat(SecondsPerRevolution))

\* LowPassData.__init__
Construct ==
    /\ obj = "args"
    /\ IF ~self_obmt.none /\ Len(self_obmt.at) < 2
       THEN /\ obj' = "IndexError"
            /\ UNCHANGED <<self_dt, self_cutoff, alpha>>
       ELSE /\ self_dt' = IF self_obmt.none THEN Rat(1)
                          ELSE DtOfObmt(self_obmt.at)
            /\ self_cutoff' = DefaultCutoff
            /\ alpha' = AlphaOfInit(self_dt', self_cutoff')
            /\ obj' = "constructed"
    /\ UNCHANGED <<self_obmt, x, i, acc, y, gen>>
    /\ UNCHANGED hitVars

\* FilterData.reset: the running output is dropped
Reset ==
    /\ i' = 0
    /\ acc' = Rat(0)
    /\ y' = << >>
    /\ gen' = "none"

\* LowPassData.tweak_cutoff
TweakCutoff ==
    /\ obj = "constructed"
    /\ \E f \in CutoffValues :
          /\ self_cutoff' = f
          /\ alpha' = AlphaOfTweak(self_dt, f)
    /\ Reset
    /\ UNCHANGED <<self_obmt, self_dt, obj, x>>
    /\ UNCHANGED hitVars

\* a pass begins: self._filter(self._data) makes the generator
BeginPass ==
    /\ obj = "constructed"
    /\ gen = "none"
    /\ gen' = "created"
    /\ UNCHANGED <<x, alpha, i, acc, y>>
    /\ UNCHANGED objVars
    /\ UNCHANGED hitVars

\* timestamps in ascending order
Ascending(ts) == \A k \in 1..(Len(ts) - 1) : ts[k].n <= ts[k + 1].n

\* the arguments of LowPassData(...): the data, with or without timestamps
InitObject ==
    /\ \/ self_obmt = [none |-> TRUE, at |-> << >>]
       \/ \E len \in 0..MaxObmtLen :
             \E ts \in [1..len -> FilterObmtValues] :
                /\ Ascending(ts)
                /\ self_obmt = [none |-> FALSE, at |-> ts]
    /\ \E len \in 0..MaxSignalLen : x \in [1..len -> SignalValues]
    /\ self_dt = Rat(0)
    /\ self_cutoff = Rat(0)
    /\ alpha = Rat(0)
    /\ obj = "args"
    /\ i = 0
    /\ acc = Rat(0)
    /\ y = << >>
    /\ gen = "none"
    /\ df = << >>
    /\ NoCall

NextObject ==
    Construct \/ TweakCutoff \/ BeginPass \/ LowPassStart \/ LowPassResume

SpecObject == InitObject /\ [][NextObject]_vars

-----------------------------------------------------------------------------
(* Properties of LowPassData (SpecObject) *)

\* C12: constructed for fewer than 2 samples (a timestamp sequence of one
\* obmt value included) the filter is built and dt is 1; otherwise dt is
\* (obmt[1] - obmt[0]) * 21600.
C12_DtOfConstruction ==
    obj \notin {"none", "args"} =>
        /\ obj = "constructed"
        /\ IF self_obmt.none \/ Len(self_obmt.at) < 2
           THEN RatEq(self_dt, Rat(1))
           ELSE RatEq(self_dt,
                      RatMul(RatSub(self_obmt.at[2], self_obmt.at[1]), Rat(21600)))

\* |a - b| <= 1/100
Near(a, b) ==
    LET diff == RatSub(a, b)
    IN  Abs(diff.n) * 100 <= diff.d

\* C13: after tweak_cutoff(f) alpha is 2 pi dt f / (2 pi dt f + 1), what
\* construction with cutoff f gives, and the next pass starts from
\* y[0] = x[0].  Equality of alpha is taken to within 1/100, which covers
\* the rounding of pi and exp here.
C13_AlphaAfterTweak ==
    obj = "constructed" =>
        /\ Near(alpha,
                RatDiv(RatMul(RatMul(Rat(2), Pi), RatMul(self_dt, self_cutoff)),
                       RatAdd(RatMul(RatMul(Rat(2), Pi),
                                     RatMul(self_dt, self_cutoff)), Rat(1))))
        /\ (gen \in {"suspended", "done"} => RatEq(y[1], Rat(x[1])))

====
